---- MODULE Spec2Model ----
(***************************************************************************)
(* Model of billing-enablement.py: the script that resolves a project id,  *)
(* lists billing accounts (enabling the Cloud Billing API and retrying     *)
(* with backoff when it looks disabled), selects the first open account    *)
(* and links the project to it, polling until the link is active.          *)
(*                                                                         *)
(* The Cloud Billing client, the gcloud command and the project id file    *)
(* are the environment: each call's response is chosen from a finite set.  *)
(* Text is modelled as sequences of one-character strings so that strip(), *)
(* lower() and the substring test are computed, not assumed.               *)
(* Durations are in units of 1/32 second, which keeps every wait_seconds   *)
(* value of the backoff loop an integer.                                   *)
(***************************************************************************)
EXTENDS Integers, Sequences, FiniteSets, TLC

\* ---------------------------------------------------------------- bounds
\* Longest account list the gateway returns in the model.
MaxAccounts == 2
\* Longest content of the project id file in the model.
MaxFileLen == 2
\* How many times in a row the harness specification calls
\* link_project_to_billing.
MaxInvocations == 2

\* ------------------------------------------------------------- constants
\* link_project_to_billing: max_retries, wait_seconds.
verify_max_retries == 6
verify_wait_seconds == 10
\* __main__: max_retries, wait_seconds; wait_seconds *= 1.5 is * 3 / 2.
enable_max_retries == 5
enable_wait_seconds == 15
BackoffNum == 3
BackoffDen == 2
\* Ticks per second: enable_max_retries multiplications by 3/2 stay integral.
Scale == BackoffDen ^ enable_max_retries

\* ------------------------------------------------------------------ text
UpperCase == <<"A","B","C","D","E","F","G","H","I","J","K","L","M","N","O","P","Q","R","S","T","U","V","W","X","Y","Z">>
LowerCase == <<"a","b","c","d","e","f","g","h","i","j","k","l","m","n","o","p","q","r","s","t","u","v","w","x","y","z">>

\* str.lower() on one character.
LowerChar(c) ==
  IF \E k \in 1..Len(UpperCase) : UpperCase[k] = c
    THEN LowerCase[CHOOSE k \in 1..Len(UpperCase) : UpperCase[k] = c]
    ELSE c

\* str.lower()
Lower(s) == [k \in 1..Len(s) |-> LowerChar(s[k])]

\* Python's `sub in s`.
Contains(s, sub) ==
  \E k \in 1..(Len(s) - Len(sub) + 1) : SubSeq(s, k, k + Len(sub) - 1) = sub

Whitespace == {" ", "\n"}

RECURSIVE LStrip(_)
LStrip(s) ==
  IF s # <<>> /\ Head(s) \in Whitespace THEN LStrip(Tail(s)) ELSE s

RECURSIVE RStrip(_)
RStrip(s) ==
  IF s # <<>> /\ s[Len(s)] \in Whitespace
    THEN RStrip(SubSeq(s, 1, Len(s) - 1))
    ELSE s

\* Strip with a plausible fault: the .strip() forgotten.
Strip_Nothing(s) == s

\* str.strip()
Strip(s) == RStrip(LStrip(s))

\* The two phrases get_billing_accounts looks for.
PhraseApiNotUsed == <<"a","p","i"," ","h","a","s"," ","n","o","t"," ","b","e","e","n"," ","u","s","e","d">>
PhraseServiceDisabled == <<"s","e","r","v","i","c","e"," ","i","s"," ","d","i","s","a","b","l","e","d">>

\* Error messages the gateway may attach to a failure.
MsgApiMixed == <<"B","i","l","l","i","n","g"," ","A","P","I"," ","h","a","s"," ","n","o","t"," ","b","e","e","n"," ","u","s","e","d">>
MsgServiceUpper == <<"S","E","R","V","I","C","E"," ","I","S"," ","D","I","S","A","B","L","E","D">>
MsgServiceLower == <<"t","h","e"," ","s","e","r","v","i","c","e"," ","i","s"," ","d","i","s","a","b","l","e","d",".">>
MsgNearMiss == <<"A","p","i"," ","h","a","s"," ","n","o","t"," ","b","e","e","n"," ","u","s","e">>
MsgPlain == <<"C","a","l","l","e","r"," ","l","a","c","k","s"," ","p","e","r","m","i","s","s","i","o","n">>
MsgEmpty == <<>>
Messages ==
  {MsgApiMixed, MsgServiceUpper, MsgServiceLower, MsgNearMiss, MsgPlain, MsgEmpty}

\* ------------------------------------------------------- the environment
AccountNames == {"A", "B"}
\* A BillingAccount as the script reads it: name and open.
AccountRecs == [name : AccountNames, open : BOOLEAN]
AccountLists == UNION {[1..n -> AccountRecs] : n \in 0..MaxAccounts}

\* google.api_core exceptions the script tells apart, and the rest.
FailureKinds == {"PermissionDenied", "NotFound", "Other"}

\* What client.list_billing_accounts() can do.
ListResponses ==
  {[kind |-> "ok", accounts |-> l, message |-> <<>>] : l \in AccountLists}
  \cup {[kind |-> k, accounts |-> <<>>, message |-> m] :
          k \in FailureKinds, m \in Messages}

\* What client.get_project_billing_info() can do: a ProjectBillingInfo
\* (billing_account_name "" when the project has no account) or a failure.
NoAccount == ""
InfoResponses ==
  {[kind |-> "ok", billing_account_name |-> a, billing_enabled |-> e] :
     a \in AccountNames \cup {NoAccount}, e \in BOOLEAN}
  \cup {[kind |-> k, billing_account_name |-> NoAccount, billing_enabled |-> FALSE] :
          k \in FailureKinds}

\* What client.update_project_billing_info() can do.
UpdateResponses == {"ok"} \cup FailureKinds

\* What subprocess.run(["gcloud", ...], check=True) can do.
EnableResponses == {"ok", "FileNotFoundError", "CalledProcessError", "OSError"}

\* ~/project_id.txt
FileChars == {" ", "p"}
FileContents == UNION {[1..n -> FileChars] : n \in 0..MaxFileLen}
FileStates ==
  {[kind |-> "missing", content |-> <<>>], [kind |-> "unreadable", content |-> <<>>]}
  \cup {[kind |-> "ok", content |-> c] : c \in FileContents}

\* Python's None, kept apart from the empty string; `not x` is true of both.
None == <<"None">>

\* Falsy with a plausible fault: `is None` instead of `not`.
Falsy_OnlyNone(x) == x = None

\* `not x`
Falsy(x) == x = None \/ x = <<>>

\* ------------------------------------------------------------- the state
VARIABLES
  pc,                   \* where the script is
  id_file,              \* what ~/project_id.txt held when it was read
  enable_response,      \* what the gcloud command of enable_billing_api did
  project_id,           \* __main__: project_id / target_project_id
  accounts_result,      \* __main__: accounts_result
  lastListResp,         \* the response get_billing_accounts last classified
  i,                    \* __main__: retry loop index
  wait_seconds,         \* __main__: wait_seconds, in ticks
  target_account,       \* __main__: target_account / billing_account_info
  current_billing_info, \* link_project_to_billing: the initial fetch's response
  vi,                   \* link_project_to_billing: verification loop index
  pollLog,              \* what each verification poll observed
  linkOutcome,          \* the return site link_project_to_billing left by
  terminal,             \* the final message of the run
  trace,                \* gateway calls and sleeps, in order
  updateReqs,           \* each update request: the account asked for, the response
  invocation,           \* harness: which call of link_project_to_billing
  history               \* harness: outcome and update count of finished calls

vars ==
  <<pc, id_file, enable_response, project_id, accounts_result, lastListResp, i, wait_seconds,
    target_account, current_billing_info, vi, pollLog, linkOutcome, terminal,
    trace, updateReqs, invocation, history>>

mainVars == <<accounts_result, lastListResp, i, wait_seconds>>
linkVars == <<current_billing_info, vi, pollLog, linkOutcome, updateReqs>>
harnessVars == <<invocation, history>>
inputVars == <<id_file, enable_response>>

\* accounts_result is a list or one of three status strings.
AccountsList(l) == [tag |-> "list", list |-> l, status |-> ""]
Status(s) == [tag |-> "status", list |-> <<>>, status |-> s]
NoResult == Status("")
NoResponse == [kind |-> "none", accounts |-> <<>>, message |-> <<>>]
NoInfo == [kind |-> "none", billing_account_name |-> NoAccount, billing_enabled |-> FALSE]
NoTarget == [name |-> NoAccount, open |-> FALSE]

\* A trace entry: operation and, for a sleep, its duration in ticks.
Call(op) == <<op, 0>>
Sleep(op, ticks) == <<op, ticks>>

\* ------------------------------------------------- get_project_id_from_file
\* What the file held, as it was: absent, unreadable, nothing but white
\* space, or some text.
FileHolds(file) ==
  IF file.kind # "ok" THEN file.kind
  ELSE IF \A k \in DOMAIN file.content : file.content[k] \in {" ", "\n"}
    THEN "blank"
  ELSE "text"

get_project_id_from_file(file) ==
  IF file.kind = "missing" THEN None
  ELSE IF file.kind = "unreadable" THEN None
  ELSE IF Strip(file.content) = <<>> THEN None
  ELSE Strip(file.content)

\* ------------------------------------------------------ enable_billing_api
\* enable_billing_api with a plausible fault: True returned from the handlers too.
enable_billing_api_AlwaysTrue(r) == TRUE

\* TRUE / FALSE for the three outcomes the function handles; any other
\* exception of subprocess.run is not caught and leaves the function.
EnableHandled(r) == r \in {"ok", "FileNotFoundError", "CalledProcessError"}
enable_billing_api(r) == r = "ok"

\* ---------------------------------------------------- get_billing_accounts
API_DISABLED_OR_NO_PERMISSION == "API_DISABLED_OR_NO_PERMISSION"
PERMISSION_DENIED == "PERMISSION_DENIED"
UNEXPECTED_ERROR == "UNEXPECTED_ERROR"

\* LooksLikeDisabledApi with a plausible fault: the .lower() forgotten.
LooksLikeDisabledApi_CaseSensitive(message) ==
  \/ Contains(message, PhraseApiNotUsed)
  \/ Contains(message, PhraseServiceDisabled)

\* error_message = e.message.lower(); the two `in` tests.
LooksLikeDisabledApi(message) ==
  \/ Contains(Lower(message), PhraseApiNotUsed)
  \/ Contains(Lower(message), PhraseServiceDisabled)

get_billing_accounts(resp) ==
  IF resp.kind = "ok" THEN AccountsList(resp.accounts)
  ELSE IF resp.kind = "PermissionDenied"
    THEN IF LooksLikeDisabledApi(resp.message)
           THEN Status(API_DISABLED_OR_NO_PERMISSION)
           ELSE Status(PERMISSION_DENIED)
  ELSE Status(UNEXPECTED_ERROR)

\* IsApiDisabled with a plausible fault: any status string taken for it.
IsApiDisabled_AnyStatus(result) == result.tag = "status"

IsApiDisabled(result) ==
  result.tag = "status" /\ result.status = API_DISABLED_OR_NO_PERMISSION

\* ------------------------------------------------------------- __main__
\* OpenAccounts with a plausible fault: the filter forgotten.
OpenAccounts_NoFilter(list) == list

\* open_accounts = [acc for acc in accounts_result if acc.open]
IsOpen(acc) == acc.open
OpenAccounts(list) == SelectSeq(list, IsOpen)

\* NextWait with a plausible fault: doubling.
NextWait_Double(w) == w * 2

\* wait_seconds *= 1.5
NextWait(w) == (w * BackoffNum) \div BackoffDen

\* InRetryRange with a plausible fault: off by one.
InRetryRange_OffByOne(n) == n <= enable_max_retries

\* for i in range(max_retries): whether index n is still in the range.
InRetryRange(n) == n < enable_max_retries

Init ==
  /\ pc = "start"
  /\ id_file = "unread"
  /\ enable_response = "none"
  /\ project_id = None
  /\ accounts_result = NoResult
  /\ lastListResp = NoResponse
  /\ i = 0
  /\ wait_seconds = 0
  /\ target_account = NoTarget
  /\ current_billing_info = NoInfo
  /\ vi = 0
  /\ pollLog = <<>>
  /\ linkOutcome = "none"
  /\ terminal = "none"
  /\ trace = <<>>
  /\ updateReqs = <<>>
  /\ invocation = 1
  /\ history = <<>>

\* project_id = get_project_id_from_file(); if not project_id: ...
ResolveProject ==
  /\ pc = "start"
  /\ \E file \in FileStates :
       /\ id_file' = FileHolds(file)
       /\ project_id' = get_project_id_from_file(file)
       /\ IF Falsy(get_project_id_from_file(file))
            THEN pc' = "done" /\ terminal' = "no_project_id"
            ELSE pc' = "resolve_accounts" /\ terminal' = terminal
  /\ UNCHANGED <<enable_response, mainVars, target_account, linkVars, trace,
                 harnessVars>>

\* accounts_result = get_billing_accounts(billing_client); line 133's test.
ResolveAccounts ==
  /\ pc = "resolve_accounts"
  /\ \E resp \in ListResponses :
       /\ lastListResp' = resp
       /\ accounts_result' = get_billing_accounts(resp)
       /\ pc' = IF IsApiDisabled(get_billing_accounts(resp))
                  THEN "enable" ELSE "select"
  /\ trace' = Append(trace, Call("list"))
  /\ UNCHANGED <<inputVars, project_id, i, wait_seconds, target_account,
                 linkVars, terminal, harnessVars>>

\* if enable_billing_api(project_id): max_retries = 5; wait_seconds = 15
EnableApi ==
  /\ pc = "enable"
  /\ trace' = Append(trace, Call("enable"))
  /\ \E r \in EnableResponses :
       /\ enable_response' = r
       /\ IF ~EnableHandled(r)
            THEN /\ pc' = "done"
                 /\ terminal' = "crashed"
                 /\ UNCHANGED <<i, wait_seconds>>
          ELSE IF enable_billing_api(r)
            THEN /\ pc' = "retry"
                 /\ i' = 0
                 /\ wait_seconds' = enable_wait_seconds * Scale
                 /\ terminal' = terminal
          ELSE /\ pc' = "select"
               /\ UNCHANGED <<i, wait_seconds, terminal>>
  /\ UNCHANGED <<id_file, project_id, accounts_result, lastListResp,
                 target_account, linkVars, harnessVars>>

\* One iteration of `for i in range(max_retries)`: sleep, list, test, back off.
RetryAccounts ==
  /\ pc = "retry"
  /\ InRetryRange(i)
  /\ trace' = trace \o <<Sleep("sleep_retry", wait_seconds), Call("list")>>
  /\ \E resp \in ListResponses :
       /\ lastListResp' = resp
       /\ accounts_result' = get_billing_accounts(resp)
       /\ IF ~IsApiDisabled(get_billing_accounts(resp))
            THEN /\ pc' = "select"
                 /\ UNCHANGED <<i, wait_seconds>>
            ELSE /\ wait_seconds' = NextWait(wait_seconds)
                 /\ i' = i + 1
                 /\ pc' = IF InRetryRange(i + 1) THEN "retry" ELSE "select"
  /\ UNCHANGED <<inputVars, project_id, target_account, linkVars, terminal,
                 harnessVars>>

\* Lines 147-164: the final branch on accounts_result.
SelectAccount ==
  /\ pc = "select"
  /\ IF accounts_result.tag = "list"
       THEN IF accounts_result.list = <<>>
              THEN /\ terminal' = "no_accounts_found"
                   /\ pc' = "done"
                   /\ UNCHANGED target_account
            ELSE IF OpenAccounts(accounts_result.list) = <<>>
              THEN /\ terminal' = "no_open_accounts"
                   /\ pc' = "done"
                   /\ UNCHANGED target_account
            ELSE /\ target_account' = OpenAccounts(accounts_result.list)[1]
                 /\ pc' = "link"
                 /\ UNCHANGED terminal
     ELSE IF IsApiDisabled(accounts_result)
       THEN /\ terminal' = "api_not_active"
            /\ pc' = "done"
            /\ UNCHANGED target_account
     ELSE /\ terminal' = "unrecoverable_error"
          /\ pc' = "done"
          /\ UNCHANGED target_account
  /\ UNCHANGED <<inputVars, project_id, mainVars, linkVars, trace, harnessVars>>

\* ------------------------------------------------ link_project_to_billing
\* AlreadyLinkedTo with a plausible fault: the short-circuit also asks for billing_enabled.
AlreadyLinkedTo_AndEnabled(info, account) ==
  info.billing_account_name = account.name /\ info.billing_enabled

\* if current_billing_info.billing_account_name == billing_account_name
AlreadyLinkedTo(info, account) == info.billing_account_name = account.name

\* InitialFetchCaught with a plausible fault: the except clause missing.
InitialFetchCaught_Nothing(kind) == FALSE

\* except exceptions.NotFound: the only failure the initial fetch handles.
InitialFetchCaught(kind) == kind = "NotFound"

\* UpdateCaught with a plausible fault: the `except Exception` clause missing.
UpdateCaught_OnlyPermissionDenied(kind) == kind = "PermissionDenied"

\* except exceptions.PermissionDenied / except Exception around the update.
UpdateCaught(kind) == kind \in FailureKinds

\* VerifiedActive with a plausible fault: the flag tested the wrong way round.
VerifiedActive_FlagInverted(info, account) ==
  info.billing_account_name = account.name /\ ~info.billing_enabled

\* VerifiedActive with a plausible fault: billing_enabled not asked for.
VerifiedActive_NameOnly(info, account) ==
  info.billing_account_name = account.name

\* if verified_info.billing_account_name == billing_account_name
\*    and verified_info.billing_enabled
VerifiedActive(info, account) ==
  info.billing_account_name = account.name /\ info.billing_enabled

\* VerifyFetchCaught with a plausible fault: only NotFound handled, as at the initial fetch.
VerifyFetchCaught_OnlyNotFound(kind) == kind = "NotFound"

\* except Exception around each verification fetch.
VerifyFetchCaught(kind) == kind \in FailureKinds

\* InVerifyRange with a plausible fault: off by one.
InVerifyRange_OffByOne(n) == n <= verify_max_retries

\* for i in range(max_retries): whether index n is still in the range.
InVerifyRange(n) == n < verify_max_retries

\* What a verification poll's response was, as the gateway gave it.
Observe(resp, account) ==
  IF resp.kind # "ok" THEN "error"
  ELSE IF resp.billing_account_name = account.name /\ resp.billing_enabled = TRUE
    THEN "match"
  ELSE "nomatch"

\* Return with a plausible fault: the caller starts over after the call.
Return_StartOver(outcome) ==
  /\ linkOutcome' = outcome
  /\ pc' = "resolve_accounts"
  /\ terminal' = "link_returned"

\* `return` (every return of the function returns None; the outcome is the
\* return site) and control going back to the caller, whose last statement
\* the call is.
Return(outcome) ==
  /\ linkOutcome' = outcome
  /\ pc' = "done"
  /\ terminal' = "link_returned"

\* An exception leaving the function: nothing up the stack handles it.
Raise ==
  /\ linkOutcome' = "Raised"
  /\ pc' = "done"
  /\ terminal' = "crashed"

\* Lines 74-90: the empty-id test and the initial fetch.
LinkStart ==
  /\ pc = "link"
  /\ IF Falsy(project_id)
       THEN /\ Return("LinkRequestFailed")
            /\ UNCHANGED <<current_billing_info, trace>>
       ELSE /\ trace' = Append(trace, Call("get"))
            /\ \E resp \in InfoResponses :
                 /\ current_billing_info' = resp
                 /\ IF resp.kind = "ok"
                      THEN IF AlreadyLinkedTo(resp, target_account)
                             THEN Return("AlreadyLinked")
                             ELSE /\ pc' = "link_update"
                                  /\ UNCHANGED <<linkOutcome, terminal>>
                    ELSE IF InitialFetchCaught(resp.kind)
                      THEN /\ pc' = "link_update"
                           /\ UNCHANGED <<linkOutcome, terminal>>
                    ELSE Raise
  /\ UNCHANGED <<inputVars, project_id, mainVars, target_account, vi, pollLog,
                 updateReqs, harnessVars>>

\* Lines 92-103: the update request.
LinkUpdate ==
  /\ pc = "link_update"
  /\ trace' = Append(trace, Call("update"))
  /\ \E r \in UpdateResponses :
       /\ updateReqs' = Append(updateReqs, [billing_account_name |-> target_account.name,
                                            response |-> r])
       /\ IF r = "ok"
            THEN /\ pc' = "link_verify"
                 /\ vi' = 0
                 /\ UNCHANGED <<linkOutcome, terminal>>
          ELSE IF UpdateCaught(r)
            THEN Return("LinkRequestFailed") /\ UNCHANGED vi
          ELSE Raise /\ UNCHANGED vi
  /\ UNCHANGED <<inputVars, project_id, mainVars, target_account,
                 current_billing_info, pollLog, harnessVars>>

\* Lines 108-119: one iteration of the verification loop; the last one falls
\* out of the loop to the warning and the end of the function.
LinkVerify ==
  /\ pc = "link_verify"
  /\ InVerifyRange(vi)
  /\ \E resp \in InfoResponses :
       /\ pollLog' = Append(pollLog, Observe(resp, target_account))
       /\ IF resp.kind = "ok" /\ VerifiedActive(resp, target_account)
            THEN /\ trace' = Append(trace, Call("get"))
                 /\ Return("Linked")
                 /\ UNCHANGED vi
          ELSE IF resp.kind # "ok" /\ ~VerifyFetchCaught(resp.kind)
            THEN /\ trace' = Append(trace, Call("get"))
                 /\ Raise
                 /\ UNCHANGED vi
          ELSE /\ trace' = trace \o
                     <<Call("get"), Sleep("sleep_verify", verify_wait_seconds * Scale)>>
               /\ vi' = vi + 1
               /\ IF InVerifyRange(vi + 1)
                    THEN UNCHANGED <<pc, linkOutcome, terminal>>
                    ELSE Return("VerificationTimedOut")
  /\ UNCHANGED <<inputVars, project_id, mainVars, target_account,
                 current_billing_info, updateReqs, harnessVars>>

Next ==
  \/ ResolveProject
  \/ ResolveAccounts
  \/ EnableApi
  \/ RetryAccounts
  \/ SelectAccount
  \/ LinkStart
  \/ LinkUpdate
  \/ LinkVerify

\* The script, run once from the start.
Spec == Init /\ [][Next]_vars

\* The script as the one thread of control it is: while a step is left to
\* take, it is taken (every gateway call and every sleep returns).
FairSpec == Spec /\ WF_vars(Next)

\* ------------------------------------- link_project_to_billing on its own
ProjectIds == {None, <<>>, <<"p">>}

\* link_project_to_billing(client, target_project_id, billing_account_info)
\* called with any project id and any account.
LinkInit ==
  /\ pc = "link"
  /\ project_id \in ProjectIds
  /\ target_account \in AccountRecs
  /\ id_file = "unread"
  /\ enable_response = "none"
  /\ accounts_result = NoResult
  /\ lastListResp = NoResponse
  /\ i = 0
  /\ wait_seconds = 0
  /\ current_billing_info = NoInfo
  /\ vi = 0
  /\ pollLog = <<>>
  /\ linkOutcome = "none"
  /\ terminal = "none"
  /\ trace = <<>>
  /\ updateReqs = <<>>
  /\ invocation = 1
  /\ history = <<>>

\* The caller calls the function again with the same arguments.
CallAgain ==
  /\ pc = "done"
  /\ invocation < MaxInvocations
  /\ invocation' = invocation + 1
  /\ history' = Append(history, [outcome |-> linkOutcome,
                                 initial |-> current_billing_info,
                                 updates |-> Len(updateReqs)])
  /\ pc' = "link"
  /\ current_billing_info' = NoInfo
  /\ vi' = 0
  /\ pollLog' = <<>>
  /\ linkOutcome' = "none"
  /\ terminal' = "none"
  /\ trace' = <<>>
  /\ updateReqs' = <<>>
  /\ UNCHANGED <<inputVars, project_id, mainVars, target_account>>

LinkNext ==
  \/ LinkStart
  \/ LinkUpdate
  \/ LinkVerify
  \/ CallAgain

LinkSpec == LinkInit /\ [][LinkNext]_vars

\* ------------------------------------------------------------ properties
\* How many trace entries are the operation op.
CountOp(op) == Cardinality({k \in DOMAIN trace : trace[k][1] = op})

\* The get_project_billing_info calls made after the update request.
VerificationPolls ==
  Cardinality({k \in DOMAIN trace :
                 trace[k][1] = "get" /\ \E j \in 1..(k - 1) : trace[j][1] = "update"})

\* The index of the first poll that saw the target account enabled, 0 if none.
FirstMatch ==
  IF \E k \in DOMAIN pollLog : pollLog[k] = "match"
    THEN CHOOSE k \in DOMAIN pollLog :
           pollLog[k] = "match" /\ \A j \in 1..(k - 1) : pollLog[j] # "match"
    ELSE 0

\* The initial fetch returned a ProjectBillingInfo naming the target account.
InitialShowsTarget(info, account) ==
  info.kind = "ok" /\ info.billing_account_name = account.name

\* C1: when the first verification poll that sees the target account linked
\* and enabled is attempt k (1 <= k <= 6), link_project_to_billing has made
\* exactly k verification polls, has returned at the "confirmed active" site
\* (Linked), and that poll is the last gateway call of the invocation.
C1_EarlyStop ==
  FirstMatch # 0 =>
    /\ FirstMatch \in 1..6
    /\ Len(pollLog) = FirstMatch
    /\ VerificationPolls = FirstMatch
    /\ linkOutcome = "Linked"
    /\ pc = "done"
    /\ trace[Len(trace)] = Call("get")

\* C1's case: two polls do not match, the third does, and the call is over.
C1_Witness ==
  /\ Len(pollLog) = 3
  /\ pollLog[1] # "match" /\ pollLog[2] # "match" /\ pollLog[3] = "match"
  /\ VerificationPolls = 3
  /\ linkOutcome = "Linked"

\* C2: whenever the initial fetch names the target account, the call returns
\* at the "already linked" site having made that one fetch only: no update
\* request and no verification poll. It holds of every call in a row: a
\* finished call whose initial fetch named the target returned AlreadyLinked
\* with zero update requests.
C2_Idempotent ==
  /\ InitialShowsTarget(current_billing_info, target_account) =>
       /\ linkOutcome = "AlreadyLinked"
       /\ pc = "done"
       /\ updateReqs = <<>>
       /\ pollLog = <<>>
       /\ trace = <<Call("get")>>
  /\ \A n \in DOMAIN history :
       InitialShowsTarget(history[n].initial, target_account) =>
         history[n].outcome = "AlreadyLinked" /\ history[n].updates = 0

\* C2's case: the second call in a row on a project already linked to the
\* target, both calls AlreadyLinked, the second with no update request.
C2_Witness ==
  /\ invocation = 2
  /\ history[1].outcome = "AlreadyLinked"
  /\ InitialShowsTarget(history[1].initial, target_account)
  /\ InitialShowsTarget(current_billing_info, target_account)
  /\ linkOutcome = "AlreadyLinked"
  /\ updateReqs = <<>>

\* C3: with an empty project id (or None) the call returns at the "Project
\* ID is empty" site (LinkRequestFailed) and makes no gateway call at all,
\* whatever the target account.
C3_EmptyProject ==
  (Len(project_id) = 0 \/ project_id = None) =>
    /\ trace = <<>>
    /\ updateReqs = <<>>
    /\ pollLog = <<>>
    /\ current_billing_info = NoInfo
    /\ pc = "done" => linkOutcome = "LinkRequestFailed"
    /\ pc \in {"link", "done"}

\* C3's case: the call with the empty string has returned.
C3_Witness ==
  /\ project_id = <<>>
  /\ pc = "done"
  /\ linkOutcome = "LinkRequestFailed"
  /\ trace = <<>>

\* Two characters equal up to the case of an ASCII letter.
SameLetter(a, b) ==
  \/ a = b
  \/ \E k \in 1..Len(UpperCase) : {a, b} = {UpperCase[k], LowerCase[k]}

\* s contains sub, compared case-insensitively.
ContainsIgnoringCase(s, sub) ==
  \E k \in 1..(Len(s) - Len(sub) + 1) :
    \A j \in 1..Len(sub) : SameLetter(s[k + j - 1], sub[j])

\* C4: get_billing_accounts classifies every response of the list call: a
\* successful list is returned as the list; a permission-denied failure is
\* API_DISABLED_OR_NO_PERMISSION exactly when its message contains, ignoring
\* case, "api has not been used" or "service is disabled", and
\* PERMISSION_DENIED otherwise; any other failure is UNEXPECTED_ERROR whatever
\* its message. Each invocation (the initial one and one per retry wait)
\* makes exactly one list call.
C4_Classification ==
  /\ lastListResp.kind # "none" =>
       accounts_result =
         IF lastListResp.kind = "ok"
           THEN [tag |-> "list", list |-> lastListResp.accounts, status |-> ""]
         ELSE IF lastListResp.kind = "PermissionDenied"
           THEN IF \/ ContainsIgnoringCase(lastListResp.message, PhraseApiNotUsed)
                   \/ ContainsIgnoringCase(lastListResp.message, PhraseServiceDisabled)
                  THEN [tag |-> "status", list |-> <<>>,
                        status |-> "API_DISABLED_OR_NO_PERMISSION"]
                  ELSE [tag |-> "status", list |-> <<>>, status |-> "PERMISSION_DENIED"]
         ELSE [tag |-> "status", list |-> <<>>, status |-> "UNEXPECTED_ERROR"]
  /\ CountOp("list") =
       (IF lastListResp.kind = "none" THEN 0 ELSE 1) + CountOp("sleep_retry")

\* C4's case: a permission-denied failure whose message has the phrase in
\* upper case has been classified as API_DISABLED_OR_NO_PERMISSION.
C4_Witness ==
  /\ lastListResp.kind = "PermissionDenied"
  /\ lastListResp.message = MsgServiceUpper
  /\ accounts_result.status = "API_DISABLED_OR_NO_PERMISSION"
  /\ CountOp("list") = 1

\* The waits of the enablement retry loop, in order.
IsRetrySleep(e) == e[1] = "sleep_retry"
RetrySleeps == SelectSeq(trace, IsRetrySleep)

\* The waits of C5 in units of 1/16 second: 15, 22.5, 33.75, 50.625, 75.9375.
ExpectedWaits16 == <<240, 360, 540, 810, 1215>>

\* C5, the waits: at most 5, the n-th is 15 * 1.5^(n-1) seconds, each comes
\* after the enable request was accepted and is followed at once by its list
\* call, and every list call but the first comes right after its wait.
C5_Waits ==
  /\ Len(RetrySleeps) <= Len(ExpectedWaits16)
  /\ \A n \in DOMAIN RetrySleeps :
       RetrySleeps[n][2] * 16 = ExpectedWaits16[n] * Scale
  /\ \A k \in DOMAIN trace :
       /\ trace[k][1] = "sleep_retry" =>
            /\ \E j \in 1..(k - 1) : trace[j] = Call("enable")
            /\ k < Len(trace)
            /\ trace[k + 1] = Call("list")
       /\ (trace[k][1] = "list" /\ k > 1) => trace[k - 1][1] = "sleep_retry"

\* C5, the exit: a step that waits or lists again starts where the outcome of
\* the attempt before it is API_DISABLED_OR_NO_PERMISSION.
C5_Exit ==
  (/\ lastListResp.kind # "none"
   /\ \/ CountOp("sleep_retry")' > CountOp("sleep_retry")
      \/ CountOp("list")' > CountOp("list"))
  => (accounts_result.tag = "status"
      /\ accounts_result.status = "API_DISABLED_OR_NO_PERMISSION")

\* C5: the enablement retry loop waits 15, 22.5, 33.75, 50.625, 75.9375
\* seconds before attempts 1..5, lists only after each wait, and stops at the
\* first attempt whose outcome is not API_DISABLED_OR_NO_PERMISSION: no wait
\* and no list call follows it.
C5_Backoff == [] C5_Waits /\ [][C5_Exit]_vars

\* C5's case: all five waits were made, the fifth of 75.9375 seconds.
C5_Witness ==
  /\ Len(RetrySleeps) = 5
  /\ RetrySleeps[5][2] * 16 = 1215 * Scale
  /\ CountOp("list") = 6

\* link_project_to_billing has not been called.
LinkNotInvoked ==
  /\ linkOutcome = "none"
  /\ pc \notin {"link", "link_update", "link_verify"}
  /\ target_account = NoTarget
  /\ CountOp("get") = 0
  /\ CountOp("update") = 0

\* C6: once the script is past the final branch with a list in hand: an empty
\* list ends the run with "no accounts found"; a list with no open account
\* ends it with "none open"; in both link_project_to_billing is never called.
\* Otherwise the account handed to link_project_to_billing is the first one
\* of the list, in the gateway's order, whose open flag is set.
C6_SelectAccount ==
  (accounts_result.tag = "list" /\ pc \notin {"start", "resolve_accounts", "select"}) =>
    LET l == accounts_result.list IN
      IF l = <<>>
        THEN terminal = "no_accounts_found" /\ pc = "done" /\ LinkNotInvoked
      ELSE IF \A k \in DOMAIN l : ~l[k].open
        THEN terminal = "no_open_accounts" /\ pc = "done" /\ LinkNotInvoked
      ELSE /\ \E k \in DOMAIN l :
                /\ l[k].open
                /\ \A j \in 1..(k - 1) : ~l[j].open
                /\ target_account = l[k]
           /\ ~LinkNotInvoked

\* C6's case: [{A, open: false}, {B, open: true}] was resolved and B is the
\* account link_project_to_billing was called with.
C6_Witness ==
  /\ accounts_result.tag = "list"
  /\ accounts_result.list = <<[name |-> "A", open |-> FALSE], [name |-> "B", open |-> TRUE]>>
  /\ target_account.name = "B"
  /\ CountOp("get") >= 1

\* The return sites of link_project_to_billing, by the outcome each stands for.
LinkOutcomes == {"AlreadyLinked", "Linked", "LinkRequestFailed", "VerificationTimedOut"}

\* C7: whatever failure a gateway call ends in, the call of
\* link_project_to_billing finishes by returning at one of its return sites:
\* no exception leaves it.
C7_NoEscape == pc = "done" => linkOutcome \in LinkOutcomes

\* The initial fetch found no link (NotFound) or a link to another account.
InitialShowsOther(info, account) ==
  \/ info.kind = "NotFound"
  \/ info.kind = "ok" /\ info.billing_account_name # account.name

\* C8: an update request is issued exactly when the initial fetch reports
\* NotFound or an account other than the target (enabled or not): the call
\* then goes on, without failing, to exactly one update request, which names
\* the target account; and no call issues a second one.
C8_UpdateIssued ==
  /\ Len(updateReqs) <= 1
  /\ CountOp("update") = Len(updateReqs)
  /\ InitialShowsOther(current_billing_info, target_account) =>
       /\ linkOutcome # "Raised"
       /\ IF pc = "link_update"
            THEN updateReqs = <<>> /\ linkOutcome = "none"
            ELSE /\ Len(updateReqs) = 1
                 /\ updateReqs[1].billing_account_name = target_account.name
  /\ updateReqs # <<>> => InitialShowsOther(current_billing_info, target_account)

\* C8's case: a first call whose initial fetch was NotFound issued one update,
\* and a second call that found another account, enabled, issued one naming
\* the target.
C8_Witness ==
  /\ invocation = 2
  /\ history[1].initial.kind = "NotFound"
  /\ history[1].updates = 1
  /\ current_billing_info.kind = "ok"
  /\ current_billing_info.billing_account_name \notin {target_account.name, NoAccount}
  /\ current_billing_info.billing_enabled
  /\ Len(updateReqs) = 1
  /\ updateReqs[1].billing_account_name = target_account.name

\* The update request was made and accepted.
UpdateAccepted == updateReqs # <<>> /\ updateReqs[1].response = "ok"

\* C9: no call makes more than 6 verification polls; and a call that is over
\* after an accepted update with no poll having seen the target account
\* enabled has made exactly 6 polls and left by the warning at the end
\* (VerificationTimedOut).
C9_Timeout ==
  /\ VerificationPolls <= 6
  /\ Len(pollLog) = VerificationPolls
  /\ (pc = "done" /\ UpdateAccepted /\ FirstMatch = 0) =>
       /\ VerificationPolls = 6
       /\ linkOutcome = "VerificationTimedOut"

\* C9's case: six polls, none matching, and the call over.
C9_Witness ==
  /\ UpdateAccepted
  /\ VerificationPolls = 6
  /\ FirstMatch = 0
  /\ linkOutcome = "VerificationTimedOut"

\* C10: a verification poll that failed is one attempt like a non-matching
\* one. With an error among the polls, every poll so far used one attempt of
\* the 6, the call has neither failed nor raised, a call still running is in
\* the loop, and a call that is over either saw the match in its last poll
\* and returned Linked, or made all 6 polls and returned VerificationTimedOut.
C10_ErrorSwallowed ==
  (\E j \in DOMAIN pollLog : pollLog[j] = "error") =>
    /\ Len(pollLog) = VerificationPolls
    /\ Len(pollLog) <= 6
    /\ linkOutcome \in {"none", "Linked", "VerificationTimedOut"}
    /\ IF pc = "done"
         THEN IF pollLog[Len(pollLog)] = "match"
                THEN linkOutcome = "Linked"
                ELSE Len(pollLog) = 6 /\ linkOutcome = "VerificationTimedOut"
         ELSE /\ pc = "link_verify"
              /\ linkOutcome = "none"
              /\ vi = Len(pollLog)
              /\ Len(pollLog) < 6

\* C10's case: two polls failed, the third matched, and the call returned
\* Linked.
C10_Witness ==
  /\ pollLog = <<"error", "error", "match">>
  /\ linkOutcome = "Linked"
  /\ pc = "done"

\* C11: when the update request fails, with permission denied or in any other
\* way, the call is over at once with LinkRequestFailed: that one update
\* request was its last gateway call, no second one was made, and no
\* verification poll.
C11_UpdateFailureFinal ==
  (updateReqs # <<>> /\ updateReqs[1].response # "ok") =>
    /\ pc = "done"
    /\ linkOutcome = "LinkRequestFailed"
    /\ Len(updateReqs) = 1
    /\ CountOp("update") = 1
    /\ VerificationPolls = 0
    /\ pollLog = <<>>
    /\ trace[Len(trace)] = Call("update")

\* C11's case: the update failed in a way other than permission denied and
\* the call returned LinkRequestFailed.
C11_Witness ==
  /\ Len(updateReqs) = 1
  /\ updateReqs[1].response = "Other"
  /\ linkOutcome = "LinkRequestFailed"
  /\ pc = "done"

\* The first call of get_billing_accounts, and none since, returned
\* PERMISSION_DENIED or UNEXPECTED_ERROR.
FirstResolutionFailed ==
  /\ trace = <<Call("list")>>
  /\ accounts_result.tag = "status"
  /\ accounts_result.status \in {"PERMISSION_DENIED", "UNEXPECTED_ERROR"}

\* C12, the state: after such a first call the script is at the final branch
\* or over, and when over its last word is the unrecoverable error;
\* enable_billing_api and link_project_to_billing were not called.
C12_FailedState ==
  FirstResolutionFailed =>
    /\ pc \in {"select", "done"}
    /\ pc = "done" => terminal = "unrecoverable_error"
    /\ enable_response = "none"
    /\ LinkNotInvoked

\* C12, the steps: from there on no step makes a gateway call or waits.
C12_FailedStep == FirstResolutionFailed => trace' = trace

\* C12: if the first call of get_billing_accounts returns PERMISSION_DENIED or
\* UNEXPECTED_ERROR, the run ends in the unrecoverable error with that single
\* list call: no enable request, no wait, no get or update call.
C12_NoRetryOnFailure == [] C12_FailedState /\ [][C12_FailedStep]_vars

\* C12's case: the run is over after one list call that was denied.
C12_Witness ==
  /\ FirstResolutionFailed
  /\ accounts_result.status = "PERMISSION_DENIED"
  /\ pc = "done"
  /\ terminal = "unrecoverable_error"

\* enable_billing_api was called and did not get its request accepted: the
\* gcloud command is missing or exited with an error.
TriggerFailed == enable_response \in {"FileNotFoundError", "CalledProcessError"}

\* C13, the state: at most one enable request, and it is the second entry of
\* the trace, right after the first list call; when it was not accepted the
\* trace stays at those two entries, link_project_to_billing is not called
\* and the run's last word is that the API did not become active.
C13_TriggerState ==
  /\ CountOp("enable") <= 1
  /\ CountOp("enable") = 1 =>
       /\ Len(trace) >= 2
       /\ trace[1] = Call("list")
       /\ trace[2] = Call("enable")
  /\ TriggerFailed =>
       /\ trace = <<Call("list"), Call("enable")>>
       /\ pc \in {"select", "done"}
       /\ pc = "done" => terminal = "api_not_active"
       /\ LinkNotInvoked

\* C13, the steps: the enable request is made only where the one list call
\* so far returned API_DISABLED_OR_NO_PERMISSION.
C13_TriggerStep ==
  CountOp("enable")' > CountOp("enable") =>
    /\ trace = <<Call("list")>>
    /\ accounts_result.tag = "status"
    /\ accounts_result.status = "API_DISABLED_OR_NO_PERMISSION"

\* C13: enable_billing_api is called at most once a run, and only after the
\* first get_billing_accounts returned API_DISABLED_OR_NO_PERMISSION; when it
\* returns False the run ends in failure with no wait, no further list call
\* and no call of link_project_to_billing.
C13_TriggerOnce == [] C13_TriggerState /\ [][C13_TriggerStep]_vars

\* C13's case: gcloud exited with an error and the run is over.
C13_Witness ==
  /\ enable_response = "CalledProcessError"
  /\ pc = "done"
  /\ terminal = "api_not_active"
  /\ trace = <<Call("list"), Call("enable")>>

\* The last call of get_billing_accounts returned API_DISABLED_OR_NO_PERMISSION.
StillDisabled ==
  accounts_result.tag = "status" /\ accounts_result.status = "API_DISABLED_OR_NO_PERMISSION"

\* C14: no run makes more than 6 list calls; and when the enable request was
\* accepted and the fifth retry still returned API_DISABLED_OR_NO_PERMISSION,
\* the run has made exactly 6 list calls, never calls
\* link_project_to_billing, and ends saying the API did not become active.
C14_BudgetExhausted ==
  /\ CountOp("list") <= 6
  /\ (enable_response = "ok" /\ CountOp("sleep_retry") = 5 /\ StillDisabled) =>
       /\ CountOp("list") = 6
       /\ pc \in {"select", "done"}
       /\ pc = "done" => terminal = "api_not_active"
       /\ LinkNotInvoked

\* C14's case: five retries, all in vain, and the run is over.
C14_Witness ==
  /\ CountOp("sleep_retry") = 5
  /\ CountOp("list") = 6
  /\ StillDisabled
  /\ pc = "done"
  /\ terminal = "api_not_active"

\* At least one retry was made and the last list call's outcome is not
\* API_DISABLED_OR_NO_PERMISSION.
RetryLoopLeft == CountOp("sleep_retry") >= 1 /\ ~StillDisabled

\* C15, the state: after the retry loop was left, accounts_result is the
\* classification of the last list response; a list goes to the final branch
\* and is the list the target account is chosen from; PERMISSION_DENIED and
\* UNEXPECTED_ERROR end the run in the unrecoverable error without a call of
\* link_project_to_billing.
C15_LastOutcomeState ==
  RetryLoopLeft =>
    /\ pc # "retry"
    /\ IF lastListResp.kind = "ok"
         THEN /\ accounts_result.tag = "list"
              /\ accounts_result.list = lastListResp.accounts
              /\ ~LinkNotInvoked =>
                   \E k \in DOMAIN lastListResp.accounts :
                     /\ lastListResp.accounts[k].open
                     /\ \A j \in 1..(k - 1) : ~lastListResp.accounts[j].open
                     /\ target_account = lastListResp.accounts[k]
              /\ (pc = "done" /\ LinkNotInvoked) =>
                   terminal \in {"no_accounts_found", "no_open_accounts"}
         ELSE /\ accounts_result.tag = "status"
              /\ accounts_result.status \in {"PERMISSION_DENIED", "UNEXPECTED_ERROR"}
              /\ pc \in {"select", "done"}
              /\ pc = "done" => terminal = "unrecoverable_error"
              /\ LinkNotInvoked

\* C15, the steps: once the loop was left there is no further wait or list
\* call, and accounts_result keeps the last outcome.
C15_LastOutcomeStep ==
  RetryLoopLeft =>
    /\ CountOp("list")' = CountOp("list")
    /\ CountOp("sleep_retry")' = CountOp("sleep_retry")
    /\ accounts_result' = accounts_result

\* C15: what the script acts on after the retry loop is the outcome of the
\* last get_billing_accounts call: a list returned by a retry is the list
\* the account is selected from, and a retry returning PERMISSION_DENIED or
\* UNEXPECTED_ERROR ends the loop and the run, with no further retry and no
\* call of link_project_to_billing.
C15_LastOutcome == [] C15_LastOutcomeState /\ [][C15_LastOutcomeStep]_vars

\* C15's case: the second retry returned a list and its open account B was
\* handed to link_project_to_billing.
C15_Witness ==
  /\ CountOp("sleep_retry") = 2
  /\ lastListResp.kind = "ok"
  /\ lastListResp.accounts = <<[name |-> "A", open |-> FALSE], [name |-> "B", open |-> TRUE]>>
  /\ target_account.name = "B"
  /\ CountOp("get") >= 1

\* The orchestrator's states in order: Start and ResolveProject, then
\* ResolveAccounts, EnableAndRetry, SelectAccount, Reconcile, Done.
StateRank(p) ==
  CASE p = "start" -> 0
    [] p = "resolve_accounts" -> 1
    [] p \in {"enable", "retry"} -> 2
    [] p = "select" -> 3
    [] p \in {"link", "link_update", "link_verify"} -> 4
    [] p = "done" -> 5

\* C16, the trace: every list call precedes every get and update call; the
\* enable request comes after the first list call and before every other.
C16_TraceOrder ==
  /\ \A j, k \in DOMAIN trace :
       (trace[j][1] = "list" /\ trace[k][1] \in {"get", "update"}) => j < k
  /\ \A k \in DOMAIN trace :
       trace[k][1] = "enable" =>
         /\ k > 1
         /\ trace[1][1] = "list"
         /\ \A j \in DOMAIN trace : (trace[j][1] = "list" /\ j # 1) => j > k

\* C16, the steps: no step goes back to an earlier state, and
\* link_project_to_billing is entered at most once, from the final branch.
C16_Forward ==
  /\ StateRank(pc') >= StateRank(pc)
  /\ (pc' = "link" /\ pc # "link") =>
       (pc = "select" /\ linkOutcome = "none" /\ CountOp("get") = 0)

\* C16: the run goes through Start, ResolveProject, ResolveAccounts, optional
\* EnableAndRetry, SelectAccount, Reconcile, Done in that order and never
\* back; so list calls precede get and update calls, the enable request lies
\* between the first list call and the retried ones, and
\* link_project_to_billing is called at most once.
C16_StateOrder == [] C16_TraceOrder /\ [][C16_Forward]_vars

\* C16's case: a run through every state: enable, retries, selection and a
\* link that was verified.
C16_Witness ==
  /\ pc = "done"
  /\ CountOp("enable") = 1
  /\ CountOp("list") = 3
  /\ CountOp("update") = 1
  /\ linkOutcome = "Linked"

\* C17: when the project id file is absent, unreadable or holds white space
\* only, the run is over with the missing-project-id error and has done
\* nothing else: no list call, no enable request, no get, no update.
C17_NoProjectId ==
  id_file \in {"missing", "unreadable", "blank"} =>
    /\ pc = "done"
    /\ terminal = "no_project_id"
    /\ trace = <<>>
    /\ enable_response = "none"
    /\ lastListResp.kind = "none"
    /\ LinkNotInvoked

\* C17's case: the file held white space only and the run is over.
C17_Witness ==
  /\ id_file = "blank"
  /\ pc = "done"
  /\ terminal = "no_project_id"
  /\ trace = <<>>

\* The ticks slept in all trace entries of operation op.
RECURSIVE TicksIn(_, _)
TicksIn(t, op) ==
  IF t = <<>> THEN 0
  ELSE (IF Head(t)[1] = op THEN Head(t)[2] ELSE 0) + TicksIn(Tail(t), op)

\* C18, the budget: at most 5 enablement waits, 6 list calls, 1 enable
\* request, 1 update request, 7 get calls, and 60 seconds waited in the
\* verification loop.
C18_Budget ==
  /\ CountOp("sleep_retry") <= 5
  /\ CountOp("list") <= 6
  /\ CountOp("enable") <= 1
  /\ CountOp("update") <= 1
  /\ CountOp("get") <= 7
  /\ TicksIn(trace, "sleep_verify") <= 60 * Scale

\* C18: whatever the gateway answers, every run comes to its end, and on the
\* way stays within the budget of calls and waits.
C18_BoundedTermination == <>(pc = "done") /\ [] C18_Budget

\* C18's case: the longest run: five retries, the last returning a list, then
\* a link whose six verification polls all fail to match.
C18_Witness ==
  /\ pc = "done"
  /\ CountOp("sleep_retry") = 5
  /\ CountOp("list") = 6
  /\ CountOp("enable") = 1
  /\ CountOp("update") = 1
  /\ CountOp("get") = 7
  /\ TicksIn(trace, "sleep_verify") = 60 * Scale

\* C19: a call returns Linked only after exactly one update request, naming
\* the target account and accepted, followed by a poll that saw the target
\* account enabled, that poll being its last: never on the strength of the
\* initial fetch, of a failed update, or of a poll that failed or saw the
\* link not enabled.
C19_LinkedSound ==
  linkOutcome = "Linked" =>
    /\ updateReqs = <<[billing_account_name |-> target_account.name, response |-> "ok"]>>
    /\ ~InitialShowsTarget(current_billing_info, target_account)
    /\ pollLog # <<>>
    /\ pollLog[Len(pollLog)] = "match"
    /\ Len(pollLog) = VerificationPolls
    /\ trace[Len(trace)] = Call("get")
    /\ \E k \in DOMAIN trace : trace[k] = Call("update") /\ 1 < k /\ k < Len(trace)

\* C19's case: the project had no link, the update was accepted, the first
\* poll saw the link not yet active, the second saw it, and the call
\* returned Linked.
C19_Witness ==
  /\ linkOutcome = "Linked"
  /\ current_billing_info.kind = "NotFound"
  /\ pollLog = <<"nomatch", "match">>
  /\ Len(updateReqs) = 1

\* C20: the short-circuit looks at the account name alone: an initial fetch
\* naming the target account with billing_enabled false still returns
\* AlreadyLinked with no update request and no poll, and AlreadyLinked is
\* returned for no other reason than the name being equal; whereas Linked
\* needs a poll that saw the account enabled.
C20_AlreadyLinkedIgnoresFlag ==
  /\ (/\ current_billing_info.kind = "ok"
      /\ current_billing_info.billing_account_name = target_account.name
      /\ ~current_billing_info.billing_enabled) =>
       /\ linkOutcome = "AlreadyLinked"
       /\ pc = "done"
       /\ updateReqs = <<>>
       /\ VerificationPolls = 0
  /\ linkOutcome = "AlreadyLinked" =>
       /\ current_billing_info.kind = "ok"
       /\ current_billing_info.billing_account_name = target_account.name
  /\ linkOutcome = "Linked" => "match" \in {pollLog[k] : k \in DOMAIN pollLog}

\* C20's case: the project is linked to the target account, billing not
\* enabled, and the call returned AlreadyLinked.
C20_Witness ==
  /\ current_billing_info.kind = "ok"
  /\ current_billing_info.billing_account_name = target_account.name
  /\ ~current_billing_info.billing_enabled
  /\ linkOutcome = "AlreadyLinked"
  /\ trace = <<Call("get")>>
====
